---- MODULE Spec2Model ----
(***************************************************************************)
(* Model of the io-ts runtime type system (index.ts, test helpers).        *)
(*                                                                         *)
(* JavaScript values are scalars or references into a heap of containers,  *)
(* so that reference identity (===), in-place writes and fresh copies are  *)
(* all observable.  A descriptor (class Type) is a record naming its class *)
(* (_tag), its children and its encoder; is / validate / encode are        *)
(* operators that dispatch on the class exactly as the closures built by   *)
(* each combinator do.                                                     *)
(***************************************************************************)
EXTENDS Integers, Sequences, FiniteSets, TLC

\* ------------------------------------------------------------------------
\* Bounds of the explored inputs
\* ------------------------------------------------------------------------
\* containers the caller allocates before calling decode / encode
MaxCells == 2
\* elements plus fields held by the caller's containers, all together
MaxSlots == 3
\* uses made of one recursive descriptor
MaxAccesses == 3

\* ------------------------------------------------------------------------
\* Values (type mixed).  A number is its integer part n and a fraction tag
\* s ("" for an integer, ".5" for n + 0.5); a reference is a heap address.
\* ------------------------------------------------------------------------
Null == [k |-> "null", n |-> 0, s |-> ""]
Undef == [k |-> "undefined", n |-> 0, s |-> ""]
Num(n) == [k |-> "number", n |-> n, s |-> ""]
NumHalf(n) == [k |-> "number", n |-> n, s |-> ".5"]
Str(s) == [k |-> "string", n |-> 0, s |-> s]
Bool(b) == [k |-> "boolean", n |-> IF b THEN 1 ELSE 0, s |-> ""]
Ref(a) == [k |-> "ref", n |-> a, s |-> ""]
\* the result of parseFloat on text that does not start with a number
NaN == [k |-> "NaN", n |-> 0, s |-> ""]

\* String(i) for a small non-negative integer
IndexStr(i) == <<"0", "1", "2", "3", "4", "5", "6", "7", "8", "9">>[i + 1]

\* ------------------------------------------------------------------------
\* Heap: address a is heap[a]; a cell is an array, a plain object (own
\* properties in insertion order) or a Date.
\* ------------------------------------------------------------------------
ArrCell(elems) == [kind |-> "arr", elems |-> elems, keys |-> <<>>, vals |-> <<>>, time |-> 0]
ObjCell(keys, vals) == [kind |-> "obj", elems |-> <<>>, keys |-> keys, vals |-> vals, time |-> 0]
DateCell(t) == [kind |-> "date", elems |-> <<>>, keys |-> <<>>, vals |-> <<>>, time |-> t]

IsRef(v) == v.k = "ref"
Cell(h, v) == h[v.n]
IsArr(h, v) == IsRef(v) /\ Cell(h, v).kind = "arr"
IsObj(h, v) == IsRef(v) /\ Cell(h, v).kind = "obj"
IsDate(h, v) == IsRef(v) /\ Cell(h, v).kind = "date"

SeqRange(s) == {s[i] : i \in 1..Len(s)}
IndexOf(s, x) == IF x \in SeqRange(s) THEN CHOOSE i \in 1..Len(s) : s[i] = x ELSE 0

\* xs.length
Length(h, v) == Len(Cell(h, v).elems)

\* Object.getOwnPropertyNames(o)
OwnPropertyNames(h, o) ==
  IF IsArr(h, o) THEN [i \in 1..Length(h, o) |-> IndexStr(i - 1)] \o <<"length">>
  ELSE IF IsObj(h, o) THEN Cell(h, o).keys
  ELSE <<>>

\* own enumerable properties, as { ...o } and for-in over a plain value see them
EnumerableKeys(h, o) ==
  IF IsArr(h, o) THEN [i \in 1..Length(h, o) |-> IndexStr(i - 1)]
  ELSE IF IsObj(h, o) THEN Cell(h, o).keys
  ELSE <<>>

\* o[k] throws a TypeError on null and undefined
Throws(o) == o.k \in {"null", "undefined"}

\* o[k] for a string key
GetProp(h, o, k) ==
  IF IsObj(h, o) THEN
    LET i == IndexOf(Cell(h, o).keys, k) IN IF i = 0 THEN Undef ELSE Cell(h, o).vals[i]
  ELSE IF IsArr(h, o) THEN
    IF k = "length" THEN Num(Length(h, o))
    ELSE LET i == IndexOf([j \in 1..Length(h, o) |-> IndexStr(j - 1)], k)
         IN IF i = 0 THEN Undef ELSE Cell(h, o).elems[i]
  ELSE Undef

\* xs[i] for a zero-based index
GetIndex(h, xs, i) ==
  IF IsArr(h, xs) /\ i < Length(h, xs) THEN Cell(h, xs).elems[i + 1] ELSE Undef

\* o[k] = v on a plain object: overwrite in place or append a new own property
SetProp(h, o, k, v) ==
  LET c == Cell(h, o)
      i == IndexOf(c.keys, k)
  IN IF i = 0
     THEN [h EXCEPT ![o.n] = ObjCell(Append(c.keys, k), Append(c.vals, v))]
     ELSE [h EXCEPT ![o.n] = ObjCell(c.keys, [c.vals EXCEPT ![i] = v])]

\* xs[i] = v on an array: writing past the end extends it, holes read undefined
SetIndex(h, xs, i, v) ==
  LET e == Cell(h, xs).elems
      n == IF i + 1 > Len(e) THEN i + 1 ELSE Len(e)
  IN [h EXCEPT ![xs.n] =
        ArrCell([j \in 1..n |-> IF j = i + 1 THEN v ELSE IF j <= Len(e) THEN e[j] ELSE Undef])]

\* allocation: the new cell gets the next address
Alloc(h, cell) == Append(h, cell)
NewRef(h) == Ref(Len(h) + 1)

\* { ...o }: a fresh plain object holding o's own enumerable properties
Spread(h, o) ==
  LET ks == EnumerableKeys(h, o)
  IN ObjCell(ks, [i \in 1..Len(ks) |-> GetProp(h, o, ks[i])])

\* xs.slice(): a fresh array holding xs's elements
Slice(h, xs) == ArrCell(Cell(h, xs).elems)

\* ------------------------------------------------------------------------
\* Conversions used by the helper codecs
\* ------------------------------------------------------------------------
\* String(n) for a number
NumberToString(v) ==
  Str(IF v.s = ".5" THEN (IF v.n = 0 THEN "0.5" ELSE IF v.n = 1 THEN "1.5" ELSE "2.5")
      ELSE IndexStr(v.n))

\* parseFloat on text: the longest numeric prefix, NaN when there is none
ParseText(s) ==
  CASE s = "0" -> Num(0)
    [] s = "1" -> Num(1)
    [] s = "2" -> Num(2)
    [] s = "1a" -> Num(1)
    [] s = "1.0" -> Num(1)
    [] s = "0.5" -> NumHalf(0)
    [] s = "1.5" -> NumHalf(1)
    [] OTHER -> NaN

\* parseFloat(v): v is first converted with String(v); an array prints its
\* elements joined by commas, so only its first element can be the prefix
parseFloat(h, v) ==
  CASE v.k = "string" -> ParseText(v.s)
    [] v.k = "number" -> v
    [] IsArr(h, v) /\ Length(h, v) > 0 ->
         LET x == GetIndex(h, v, 0)
         IN IF x.k = "string" THEN ParseText(x.s) ELSE IF x.k = "number" THEN x ELSE NaN
    [] OTHER -> NaN

\* ------------------------------------------------------------------------
\* Descriptors (class Type and its subclasses).  name is the display name as
\* a sequence of text pieces (concatenation is \o); keys / types are the
\* props of an object-like descriptor or the members of a union,
\* intersection or tuple; encode is "identity" when the encoder is the
\* identity function itself and "closure" when it is a function of its own.
\* ------------------------------------------------------------------------
NoKeys == <<>>
NoTypes == <<>>

Type(tag, name, keys, types, value, predicate, enc) ==
  [tag |-> tag, name |-> name, keys |-> keys, types |-> types, value |-> value,
   predicate |-> predicate, encode |-> enc]

Basic(tag, name) == Type(tag, <<name>>, NoKeys, NoTypes, Undef, "", "identity")

nullType == Basic("NullType", "null")
undefinedType == Basic("UndefinedType", "undefined")
any == Basic("AnyType", "any")
never == Type("NeverType", <<"never">>, NoKeys, NoTypes, Undef, "", "closure")
string == Basic("StringType", "string")
number == Basic("NumberType", "number")
boolean == Basic("BooleanType", "boolean")
arrayType == Basic("AnyArrayType", "Array")
Dictionary == Basic("AnyDictionaryType", "Dictionary")

\* text pieces joined by a separator
RECURSIVE Join(_, _)
Join(names, sep) ==
  IF Len(names) = 0 THEN <<>>
  ELSE IF Len(names) = 1 THEN names[1]
  ELSE names[1] \o <<sep>> \o Join(Tail(names), sep)

Names(types) == [i \in 1..Len(types) |-> types[i].name]

refinement(type, predicate, name) ==
  Type("RefinementType", <<name>>, NoKeys, <<type>>, Undef, predicate, type.encode)

Integer == refinement(number, "Integer", "Integer")

\* JSON.stringify of a literal's value, as one text piece
stringify(v) ==
  CASE v.k = "string" /\ v.s = "a" -> "\"a\""
    [] v.k = "string" /\ v.s = "b" -> "\"b\""
    [] v.k = "string" -> "\"...\""
    [] v.k = "number" -> IndexStr(v.n)
    [] OTHER -> v.k

literal(value) ==
  Type("LiteralType", <<stringify(value)>>, NoKeys, NoTypes, value, "", "identity")

\* keyof(keys): the name is `(keyof ${JSON.stringify(Object.keys(keys))})`
keyof(keys) ==
  Type("KeyofType",
       <<"(keyof ", "[">> \o Join([i \in 1..Len(keys) |-> <<"\"", keys[i], "\"">>], ",") \o <<"]", ")">>,
       keys, NoTypes, Undef, "", "identity")

\* no encoder taken as the identity function
useIdentityNever(types) == FALSE

\* useIdentity(props), and types.every(type => type.encode === identity)
useIdentity(types) == \A i \in 1..Len(types) : types[i].encode = "identity"

array(type) ==
  Type("ArrayType", <<"Array<">> \o type.name \o <<">">>, NoKeys, <<type>>, Undef, "",
       IF useIdentity(<<type>>) THEN "identity" ELSE "closure")

getNameFromProps(keys, types) ==
  <<"{ ">> \o Join([i \in 1..Len(keys) |-> <<keys[i], ": ">> \o types[i].name], ", ") \o <<" }">>

\* type(props), alias interface: props given as parallel keys and types
type(keys, types) ==
  Type("InterfaceType", getNameFromProps(keys, types), keys, types, Undef, "",
       IF useIdentity(types) THEN "identity" ELSE "closure")

union(types) ==
  Type("UnionType", <<"(">> \o Join(Names(types), " | ") \o <<")">>, NoKeys, types, Undef, "",
       IF useIdentity(types) THEN "identity" ELSE "closure")

\* the props of the open object that partial(props) validates with
partials(types) == [i \in 1..Len(types) |-> union(<<types[i], undefinedType>>)]

partial(keys, types) ==
  Type("PartialType", <<"PartialType<">> \o getNameFromProps(keys, types) \o <<">">>, keys, types,
       Undef, "", IF useIdentity(types) THEN "identity" ELSE "closure")

intersection(types) ==
  Type("IntersectionType", <<"(">> \o Join(Names(types), " & ") \o <<")">>, NoKeys, types, Undef, "",
       IF useIdentity(types) THEN "identity" ELSE "closure")

tuple(types) ==
  Type("TupleType", <<"[">> \o Join(Names(types), ", ") \o <<"]">>, NoKeys, types, Undef, "",
       IF useIdentity(types) THEN "identity" ELSE "closure")

strict(keys, types) ==
  Type("StrictType", <<"StrictType<">> \o getNameFromProps(keys, types) \o <<">">>, keys, types,
       Undef, "", type(keys, types).encode)

\* every key taken as declared
hasOwnPropertyAlways(keys, key) == TRUE

\* props.hasOwnProperty(key)
hasOwnProperty(keys, key) == key \in SeqRange(keys)

dictionary(domain, codomain) ==
  Type("DictionaryType",
       <<"{ [K in ">> \o domain.name \o <<"]: ">> \o codomain.name \o <<" }">>,
       NoKeys, <<domain, codomain>>, Undef, "",
       IF useIdentity(<<domain, codomain>>) THEN "identity" ELSE "closure")

\* this.pipe(ab): a plain Type, given a tag of its own here
pipe(this, ab) ==
  Type("PipeType", <<"pipe(">> \o this.name \o <<", ">> \o ab.name \o <<")">>, NoKeys,
       <<this, ab>>, Undef, "", IF useIdentity(<<this, ab>>) THEN "identity" ELSE "closure")

\* readonly(type): its encoder is type.encode whichever way the test goes
readonly(rt) ==
  Type("ReadonlyType", <<"Readonly<">> \o rt.name \o <<">">>, NoKeys, <<rt>>, Undef, "",
       IF useIdentity(<<rt>>) THEN "identity" ELSE rt.encode)

\* the property key a value turns into when it indexes an object
PropertyKey(v) ==
  CASE v.k = "string" -> v.s
    [] v.k = "number" -> NumberToString(v).s
    [] OTHER -> v.k

\* instanceof UnionType: taggedUnion builds a UnionType too, with closures of
\* its own, and the model gives it a tag of its own
IsUnionType(T) == T.tag \in {"UnionType", "TaggedUnionType"}

RECURSIVE isTagged(_, _)
isTagged(tag, T) ==
  IF T.tag \in {"InterfaceType", "StrictType"} THEN tag \in SeqRange(T.keys)
  ELSE IF T.tag = "IntersectionType" THEN \E i \in 1..Len(T.types) : isTagged(tag, T.types[i])
  ELSE IF IsUnionType(T) THEN \A i \in 1..Len(T.types) : isTagged(tag, T.types[i])
  ELSE IF T.tag = "RefinementType" THEN isTagged(tag, T.types[1])
  ELSE FALSE

\* the first of types but the last that is tagged, else the last
RECURSIVE findTagged(_, _, _)
findTagged(tag, types, i) ==
  IF i >= Len(types) THEN types[i]
  ELSE IF isTagged(tag, types[i]) THEN types[i]
  ELSE findTagged(tag, types, i + 1)

RECURSIVE getTagValue(_, _)
getTagValue(tag, T) ==
  CASE T.tag \in {"InterfaceType", "StrictType"} -> T.types[IndexOf(T.keys, tag)].value
    [] T.tag = "IntersectionType" -> getTagValue(tag, findTagged(tag, T.types, 1))
    [] IsUnionType(T) -> getTagValue(tag, T.types[1])
    [] T.tag = "RefinementType" -> getTagValue(tag, T.types[1])
    [] OTHER -> Undef

\* Object.keys of an object the keys were written to in this order: the
\* integer keys first, ascending, then the others as first written
ObjectKeysOf(written) ==
  LET digits == [i \in 1..10 |-> IndexStr(i - 1)]
  IN SelectSeq(digits, LAMBDA k : k \in SeqRange(written))
       \o SelectSeq([i \in 1..Len(written) |->
                      IF written[i] \in SeqRange(digits)
                           \/ \E j \in 1..(i - 1) : written[j] = written[i]
                      THEN "" ELSE written[i]],
                    LAMBDA k : k # "")

\* taggedUnion(tag, types): a UnionType; value holds the tag, keys the
\* property key of each member's tag value, in member order
taggedUnion(tag, types) ==
  Type("TaggedUnionType", <<"(">> \o Join(Names(types), " | ") \o <<")">>,
       [i \in 1..Len(types) |-> PropertyKey(getTagValue(tag, types[i]))], types, Str(tag), "",
       IF useIdentity(types) THEN "identity" ELSE "closure")

\* tagValue2Index[value]: the member written last under that key
tagValue2Index(T, value) ==
  LET S == {i \in 1..Len(T.keys) : T.keys[i] = PropertyKey(value)}
  IN IF S = {} THEN 0 ELSE CHOOSE i \in S : \A j \in S : j <= i

\* TagValue = keyof(tagValues)
TagValue(T) == keyof(ObjectKeysOf(T.keys))

\* recursion(name, definition): Self, whose closures reach the descriptor
\* that definition(Self) builds through runDefinition
recursion(name) == Type("RecursiveType", <<name>>, NoKeys, NoTypes, Undef, "", "closure")

\* the definition handed to recursion: a chain of objects linked by field b
definition(Self) == type(<<"a", "b">>, <<number, union(<<undefinedType, Self>>)>>)

\* let cache: not assigned yet
NoCache == Undef

\* the definition run at every call, nothing looked up
runDefinitionAfresh(memo, Self) ==
  [cache |-> definition(Self), invoked |-> memo.invoked + 1]

\* runDefinition: if (!cache) { cache = definition(Self) }; return cache
runDefinition(memo, Self) ==
  IF memo.cache = NoCache THEN [cache |-> definition(Self), invoked |-> memo.invoked + 1]
  ELSE memo

\* runDefinition called n times in a row
RECURSIVE runDefinitionTimes(_, _, _)
runDefinitionTimes(memo, Self, n) ==
  IF n = 0 THEN memo ELSE runDefinitionTimes(runDefinition(memo, Self), Self, n - 1)

\* helper codecs of the test suite
NumberFromString == Type("NumberFromString", <<"NumberFromString">>, NoKeys, NoTypes, Undef, "", "closure")
DateFromNumber == Type("DateFromNumber", <<"DateFromNumber">>, NoKeys, NoTypes, Undef, "", "closure")
IntegerFromString == refinement(NumberFromString, "Integer.is", "IntegerFromString")

\* ------------------------------------------------------------------------
\* is: the type guards
\* ------------------------------------------------------------------------
\* the predicate of a refinement, by name
predicate(p, v) ==
  CASE p = "Integer" -> v.s = ""
    [] p = "Integer.is" -> v.k = "number" /\ v.s = ""
    [] OTHER -> TRUE

\* typeof m === 'object' alone, which null satisfies
DictionaryIsTypeofOnly(m) == IsRef(m) \/ m = Null

\* Dictionary.is: m !== null && typeof m === 'object'
DictionaryIs(m) == IsRef(m)

RECURSIVE is(_, _, _)
is(T, m, h) ==
  CASE T.tag = "NullType" -> m = Null
    [] T.tag = "UndefinedType" -> m = Undef
    [] T.tag = "AnyType" -> TRUE
    [] T.tag = "NeverType" -> FALSE
    [] T.tag = "StringType" -> m.k = "string"
    [] T.tag = "NumberType" -> m.k = "number"
    [] T.tag = "BooleanType" -> m.k = "boolean"
    [] T.tag = "AnyArrayType" -> IsArr(h, m)
    [] T.tag = "AnyDictionaryType" -> DictionaryIs(m)
    [] T.tag = "RefinementType" -> is(T.types[1], m, h) /\ predicate(T.predicate, m)
    [] T.tag = "LiteralType" -> m = T.value
    [] T.tag = "KeyofType" -> m.k = "string" /\ m.s \in SeqRange(T.keys)
    [] T.tag = "ArrayType" ->
         IsArr(h, m) /\ \A i \in 0..(Length(h, m) - 1) : is(T.types[1], GetIndex(h, m, i), h)
    [] T.tag = "InterfaceType" ->
         DictionaryIs(m) /\ \A i \in 1..Len(T.keys) : is(T.types[i], GetProp(h, m, T.keys[i]), h)
    [] T.tag = "PartialType" -> is(type(T.keys, partials(T.types)), m, h)
    [] T.tag = "StrictType" ->
         /\ is(type(T.keys, T.types), m, h)
         /\ \A k \in SeqRange(OwnPropertyNames(h, m)) : k \in SeqRange(T.keys)
    [] T.tag = "UnionType" -> \E i \in 1..Len(T.types) : is(T.types[i], m, h)
    [] T.tag = "IntersectionType" -> \A i \in 1..Len(T.types) : is(T.types[i], m, h)
    [] T.tag = "PipeType" -> is(T.types[2], m, h)
    [] T.tag = "ReadonlyType" -> is(T.types[1], m, h)
    [] T.tag = "DictionaryType" ->
         /\ DictionaryIs(m)
         /\ \A k \in SeqRange(EnumerableKeys(h, m)) :
              is(T.types[1], Str(k), h) /\ is(T.types[2], GetProp(h, m, k), h)
    [] T.tag = "TaggedUnionType" ->
         /\ DictionaryIs(m)
         /\ LET tagValue == GetProp(h, m, T.value.s)
            IN /\ is(TagValue(T), tagValue, h)
               /\ is(T.types[tagValue2Index(T, tagValue)], m, h)
    [] T.tag = "TupleType" ->
         /\ IsArr(h, m)
         /\ Length(h, m) = Len(T.types)
         /\ \A i \in 1..Len(T.types) : is(T.types[i], GetIndex(h, m, i - 1), h)
    [] T.tag = "RecursiveType" -> is(definition(T), m, h)
    [] T.tag = "NumberFromString" -> m.k = "number"
    [] T.tag = "DateFromNumber" -> IsDate(h, m)

\* ------------------------------------------------------------------------
\* Validation<A> = Left<VError> | A.  A call returns the Left or the raw
\* value, together with the heap it leaves behind; threw marks a call that
\* ended by throwing instead of returning.
\* ------------------------------------------------------------------------
NoError == [value |-> Undef, key |-> "", type |-> any, children |-> <<>>]

success(v, h) == [left |-> FALSE, value |-> v, error |-> NoError, heap |-> h, threw |-> FALSE]

failureError(value, key, decoder, children) ==
  [value |-> value, key |-> key, type |-> decoder, children |-> children]

failure(value, key, decoder, children, h) ==
  [left |-> TRUE, value |-> Undef, error |-> failureError(value, key, decoder, children),
   heap |-> h, threw |-> FALSE]

failures(value, key, decoder, errors, h) == failure(value, key, decoder, errors, h)

Thrown(h) == [left |-> FALSE, value |-> Undef, error |-> NoError, heap |-> h, threw |-> TRUE]

isLeft(v) == v.left

\* every validated child taken as changed
DiffersAlways(validation, x) == TRUE

\* validation !== x
Differs(validation, x) == validation # x

\* the failing member's whole node pushed, as union does
Nest(errors, e) == Append(errors, e)

\* errors.push(...validation.value.children) in intersection
Splice(errors, e) == errors \o e.children

\* the raw input recorded by a refinement whose predicate fails
OffendingInput(i, validation) == i

\* failure(validation, String(c), decoder) in refinement: the validated value
Offending(i, validation) == validation

\* only the first failure of a dictionary kept
PushedFirst(errors, validation) ==
  IF isLeft(validation) /\ errors = <<>> THEN Append(errors, validation.error) ELSE errors

\* if (isLeft(validation)) { errors.push(validation.value) } in dictionary
Pushed(errors, validation) ==
  IF isLeft(validation) THEN Append(errors, validation.error) ELSE errors

\* excess elements ignored
ExcessIgnored(asLength, len) == FALSE

\* as.length > len in tuple
Excess(asLength, len) == asLength > len

\* ------------------------------------------------------------------------
\* validate, one branch per combinator; the loops of the combinators are the
\* recursive operators below, carrying the loop variables of the source.
\* ------------------------------------------------------------------------
RECURSIVE validate(_, _, _, _, _)
RECURSIVE arrayLoop(_, _, _, _, _, _, _, _, _, _)
RECURSIVE typeLoop(_, _, _, _, _, _, _, _, _)
RECURSIVE unionLoop(_, _, _, _, _, _, _)
RECURSIVE intersectionLoop(_, _, _, _, _, _, _, _)
RECURSIVE tupleLoop(_, _, _, _, _, _, _, _, _)
RECURSIVE dictionaryLoop(_, _, _, _, _, _, _, _, _, _, _)

\* the guard-then-fail body shared by the basic types, literal and keyof
Guarded(T, m, c, decoder, h) ==
  IF is(T, m, h) THEN success(m, h) ELSE failure(m, c, decoder, <<>>, h)

\* array(type).validate: for (let i = 0; i < len; i++) { ... }
arrayLoop(T, m, c, decoder, xs, len, i, a, errors, h) ==
  IF i >= len THEN
    IF Len(errors) > 0 THEN failures(m, c, decoder, errors, h) ELSE success(a, h)
  ELSE
    LET x == GetIndex(h, xs, i)
        validation == validate(T.types[1], x, IndexStr(i), T.types[1], h)
    IN IF validation.threw THEN validation
       ELSE IF isLeft(validation) THEN
         arrayLoop(T, m, c, decoder, xs, len, i + 1, a, Append(errors, validation.error),
                   validation.heap)
       ELSE IF Differs(validation.value, x) THEN
         LET copy == a = validation.value
             h1 == IF copy THEN Alloc(validation.heap, Slice(validation.heap, xs))
                   ELSE validation.heap
             a1 == IF copy THEN NewRef(validation.heap) ELSE a
         IN arrayLoop(T, m, c, decoder, xs, len, i + 1, a1, errors,
                      SetIndex(h1, a1, i, validation.value))
       ELSE arrayLoop(T, m, c, decoder, xs, len, i + 1, a, errors, validation.heap)

\* type(props).validate: the loop over flatPropsKeys
typeLoop(T, m, c, decoder, o, i, a, errors, h) ==
  IF i > Len(T.keys) THEN
    IF Len(errors) > 0 THEN failures(m, c, decoder, errors, h) ELSE success(a, h)
  ELSE IF Throws(o) THEN Thrown(h)
  ELSE
    LET k == T.keys[i]
        ok == GetProp(h, o, k)
        validation == validate(T.types[i], ok, k, T.types[i], h)
    IN IF validation.threw THEN validation
       ELSE IF isLeft(validation) THEN
         typeLoop(T, m, c, decoder, o, i + 1, a, Append(errors, validation.error), validation.heap)
       ELSE IF Differs(validation.value, ok) THEN
         LET copy == a = o
             h1 == IF copy THEN Alloc(validation.heap, Spread(validation.heap, o))
                   ELSE validation.heap
             a1 == IF copy THEN NewRef(validation.heap) ELSE a
         IN typeLoop(T, m, c, decoder, o, i + 1, a1, errors, SetProp(h1, a1, k, validation.value))
       ELSE typeLoop(T, m, c, decoder, o, i + 1, a, errors, validation.heap)

\* union(types).validate: the first member that succeeds is returned
unionLoop(T, m, c, decoder, i, errors, h) ==
  IF i > Len(T.types) THEN failures(m, c, decoder, errors, h)
  ELSE
    LET validation == validate(T.types[i], m, IndexStr(i - 1), T.types[i], h)
    IN IF validation.threw THEN validation
       ELSE IF isLeft(validation) THEN
         unionLoop(T, m, c, decoder, i + 1, Append(errors, validation.error), validation.heap)
       ELSE validation

\* intersection(types).validate: errors.push(...validation.value.children)
intersectionLoop(T, m, c, decoder, i, a, errors, h) ==
  IF i > Len(T.types) THEN
    IF Len(errors) > 0 THEN failures(m, c, decoder, errors, h) ELSE success(a, h)
  ELSE
    LET validation == validate(T.types[i], a, IndexStr(i - 1), T.types[i], h)
    IN IF validation.threw THEN validation
       ELSE IF isLeft(validation) THEN
         intersectionLoop(T, m, c, decoder, i + 1, a, Splice(errors, validation.error),
                          validation.heap)
       ELSE intersectionLoop(T, m, c, decoder, i + 1, validation.value, errors, validation.heap)

\* tuple(types).validate: the loop over the declared arity, then the excess check
tupleLoop(T, m, c, decoder, as, i, t, errors, h) ==
  IF i >= Len(T.types) THEN
    LET len == Len(T.types)
        errors1 == IF Excess(Length(h, as), len)
                   THEN Append(errors, failureError(GetIndex(h, as, len), IndexStr(len), never, <<>>))
                   ELSE errors
    IN IF Len(errors1) > 0 THEN failures(m, c, decoder, errors1, h) ELSE success(t, h)
  ELSE
    LET a == GetIndex(h, as, i)
        validation == validate(T.types[i + 1], a, IndexStr(i), T.types[i + 1], h)
    IN IF validation.threw THEN validation
       ELSE IF isLeft(validation) THEN
         tupleLoop(T, m, c, decoder, as, i + 1, t, Append(errors, validation.error), validation.heap)
       ELSE IF Differs(validation.value, a) THEN
         LET copy == t = as
             h1 == IF copy THEN Alloc(validation.heap, Slice(validation.heap, as))
                   ELSE validation.heap
             t1 == IF copy THEN NewRef(validation.heap) ELSE t
         IN tupleLoop(T, m, c, decoder, as, i + 1, t1, errors, SetIndex(h1, t1, i, validation.value))
       ELSE tupleLoop(T, m, c, decoder, as, i + 1, t, errors, validation.heap)

\* dictionary(domain, codomain).validate: for (let k in o) { ... }, keys being
\* the keys for-in enumerates.  a is the cell of the object built on the way;
\* it enters the heap when it is returned.
dictionaryLoop(T, m, c, decoder, o, keys, i, a, errors, changed, h) ==
  IF i > Len(keys) THEN
    IF Len(errors) > 0 THEN failures(m, c, decoder, errors, h)
    ELSE IF changed THEN success(NewRef(h), Alloc(h, a))
    ELSE success(o, h)
  ELSE
    LET k == keys[i]
        ok == GetProp(h, o, k)
        domainValidation == validate(T.types[1], Str(k), k, T.types[1], h)
        codomainValidation == validate(T.types[2], ok, k, T.types[2], domainValidation.heap)
        vk == IF isLeft(domainValidation) THEN Str(k) ELSE domainValidation.value
        keyChanged == ~isLeft(domainValidation) /\ Differs(domainValidation.value, Str(k))
        valueChanged == ~isLeft(codomainValidation) /\ Differs(codomainValidation.value, ok)
        written == IF PropertyKey(vk) \in SeqRange(a.keys)
                   THEN [a EXCEPT !.vals[IndexOf(a.keys, PropertyKey(vk))] = codomainValidation.value]
                   ELSE [a EXCEPT !.keys = Append(a.keys, PropertyKey(vk)),
                                  !.vals = Append(a.vals, codomainValidation.value)]
    IN IF domainValidation.threw THEN domainValidation
       ELSE IF codomainValidation.threw THEN codomainValidation
       ELSE dictionaryLoop(T, m, c, decoder, o, keys, i + 1,
                           IF isLeft(codomainValidation) THEN a ELSE written,
                           Pushed(Pushed(errors, domainValidation), codomainValidation),
                           changed \/ keyChanged \/ valueChanged,
                           codomainValidation.heap)

\* strict(props).validate, after the open object accepted o
strictScan(T, m, decoder, o, h) ==
  LET keys == OwnPropertyNames(h, o)
      extra == SelectSeq(keys, LAMBDA key : ~hasOwnProperty(T.keys, key))
      errors == [i \in 1..Len(extra) |-> failureError(GetProp(h, o, extra[i]), extra[i], never, <<>>)]
  IN IF Len(errors) > 0 THEN failures(m, "", decoder, errors, h) ELSE success(o, h)

validate(T, m, c, decoder, h) ==
  CASE T.tag \in {"NullType", "UndefinedType", "StringType", "NumberType", "BooleanType",
                  "AnyArrayType", "AnyDictionaryType", "KeyofType"} -> Guarded(T, m, c, decoder, h)
    [] T.tag = "AnyType" -> success(m, h)
    [] T.tag = "NeverType" -> failure(m, c, decoder, <<>>, h)
    [] T.tag = "LiteralType" ->
         IF is(T, m, h) THEN success(T.value, h) ELSE failure(m, c, decoder, <<>>, h)
    [] T.tag = "RefinementType" ->
         LET validation == validate(T.types[1], m, c, decoder, h)
         IN IF validation.threw \/ isLeft(validation) THEN validation
            ELSE IF predicate(T.predicate, validation.value) THEN validation
            ELSE failure(Offending(m, validation.value), c, decoder, <<>>, validation.heap)
    [] T.tag = "ArrayType" ->
         LET arrayValidation == validate(arrayType, m, c, decoder, h)
         IN IF isLeft(arrayValidation) THEN arrayValidation
            ELSE LET xs == arrayValidation.value
                 IN arrayLoop(T, m, c, decoder, xs, Length(h, xs), 0, xs, <<>>, h)
    [] T.tag = "InterfaceType" ->
         LET dictionaryValidation == validate(Dictionary, m, c, decoder, h)
         IN IF isLeft(dictionaryValidation) THEN dictionaryValidation
            ELSE LET o == dictionaryValidation.value
                 IN typeLoop(T, m, c, decoder, o, 1, o, <<>>, h)
    [] T.tag = "PartialType" -> validate(type(T.keys, partials(T.types)), m, c, decoder, h)
    [] T.tag = "StrictType" ->
         LET loose == type(T.keys, T.types)
             looseValidation == validate(loose, m, c, loose, h)
         IN IF looseValidation.threw \/ isLeft(looseValidation) THEN looseValidation
            ELSE strictScan(T, m, decoder, looseValidation.value, looseValidation.heap)
    [] T.tag = "UnionType" -> unionLoop(T, m, c, decoder, 1, <<>>, h)
    [] T.tag = "IntersectionType" -> intersectionLoop(T, m, c, decoder, 1, m, <<>>, h)
    [] T.tag = "PipeType" ->
         LET validation == validate(T.types[1], m, c, decoder, h)
         IN IF validation.threw \/ isLeft(validation) THEN validation
            ELSE validate(T.types[2], validation.value, c, decoder, validation.heap)
    \* Object.freeze(res) returns res; no call modelled writes to a value that
    \* readonly returned, so whether it is frozen is not recorded
    [] T.tag = "ReadonlyType" -> validate(T.types[1], m, c, decoder, h)
    [] T.tag = "DictionaryType" ->
         LET dictionaryValidation == validate(Dictionary, m, c, decoder, h)
         IN IF isLeft(dictionaryValidation) THEN dictionaryValidation
            ELSE LET o == dictionaryValidation.value
                 IN dictionaryLoop(T, m, c, decoder, o, EnumerableKeys(h, o), 1,
                                   ObjCell(<<>>, <<>>), <<>>, FALSE, h)
    [] T.tag = "TaggedUnionType" ->
         LET dictionaryValidation == validate(Dictionary, m, c, decoder, h)
         IN IF isLeft(dictionaryValidation) THEN dictionaryValidation
            ELSE LET d == dictionaryValidation.value
                     tag == T.value.s
                     tagValueValidation == validate(TagValue(T), GetProp(h, d, tag), tag, TagValue(T), h)
                 IN IF isLeft(tagValueValidation)
                    THEN failure(GetProp(h, d, tag), " ", decoder, <<tagValueValidation.error>>, h)
                    ELSE LET i == tagValue2Index(T, tagValueValidation.value)
                         IN validate(T.types[i], d, c, T.types[i], h)
    [] T.tag = "TupleType" ->
         LET arrayValidation == validate(arrayType, m, c, arrayType, h)
         IN IF isLeft(arrayValidation) THEN arrayValidation
            ELSE LET as == arrayValidation.value
                 IN tupleLoop(T, m, c, decoder, as, 0, as, <<>>, h)
    [] T.tag = "RecursiveType" -> validate(definition(T), m, c, decoder, h)
    [] T.tag = "NumberFromString" ->
         LET n == parseFloat(h, m)
         IN IF n = NaN THEN failure(m, c, decoder, <<>>, h) ELSE success(n, h)
    [] T.tag = "DateFromNumber" ->
         LET numberValidation == validate(number, m, c, number, h)
         \* new Date(n) keeps the integer part of n; every number here is finite,
         \* so isNaN(d.getTime()) is false
         IN IF isLeft(numberValidation) THEN numberValidation
            ELSE success(NewRef(h), Alloc(h, DateCell(numberValidation.value.n)))

\* decode(i) = this.validate(i, '', this)
decode(T, i, h) == validate(T, i, "", T, h)

\* ------------------------------------------------------------------------
\* encode, one branch per combinator whose encoder is not identity
\* ------------------------------------------------------------------------
\* no field taken as absent
AbsentNever(ak) == FALSE

\* ak === undefined, the test under which partial's encoder leaves a key out
Absent(ak) == ak = Undef

\* String(a) as NumberFromString's encoder applies it
String(a) ==
  CASE a.k = "number" -> NumberToString(a)
    [] a.k = "string" -> a
    [] OTHER -> Str(a.k)

RECURSIVE encode(_, _, _)
RECURSIVE arrayEncodeLoop(_, _, _, _, _)
RECURSIVE typeEncodeLoop(_, _, _, _, _)
RECURSIVE partialEncodeLoop(_, _, _, _, _)
RECURSIVE unionEncodeLoop(_, _, _, _)
RECURSIVE intersectionEncodeLoop(_, _, _, _)
RECURSIVE tupleEncodeLoop(_, _, _, _, _)
RECURSIVE dictionaryEncodeLoop(_, _, _, _, _, _)

\* a.map(type.encode), writing into the fresh array s
arrayEncodeLoop(T, a, i, s, h) ==
  IF i >= Length(h, a) THEN success(s, h)
  ELSE LET e == encode(T.types[1], GetIndex(h, a, i), h)
       IN IF e.threw THEN e
          ELSE arrayEncodeLoop(T, a, i + 1, s, SetIndex(e.heap, s, i, e.value))

\* s[k] = type.encode(a[k]) for every declared field, s being { ...a }
typeEncodeLoop(T, a, i, s, h) ==
  IF i > Len(T.keys) THEN success(s, h)
  ELSE IF Throws(a) THEN Thrown(h)
  ELSE LET e == encode(T.types[i], GetProp(h, a, T.keys[i]), h)
       IN IF e.threw THEN e
          ELSE typeEncodeLoop(T, a, i + 1, s, SetProp(e.heap, s, T.keys[i], e.value))

\* partial's encoder: s starts empty and gets the declared fields that are not absent
partialEncodeLoop(T, a, i, s, h) ==
  IF i > Len(T.keys) THEN success(s, h)
  ELSE IF Throws(a) THEN Thrown(h)
  ELSE LET ak == GetProp(h, a, T.keys[i])
       IN IF Absent(ak) THEN partialEncodeLoop(T, a, i + 1, s, h)
          ELSE LET e == encode(T.types[i], ak, h)
               IN IF e.threw THEN e
                  ELSE partialEncodeLoop(T, a, i + 1, s, SetProp(e.heap, s, T.keys[i], e.value))

\* union's encoder: the first member but the last whose guard accepts a, else the last
unionEncodeLoop(T, a, i, h) ==
  IF i >= Len(T.types) THEN encode(T.types[i], a, h)
  ELSE IF is(T.types[i], a, h) THEN encode(T.types[i], a, h)
  ELSE unionEncodeLoop(T, a, i + 1, h)

\* intersection's encoder: every member's encoder in turn
intersectionEncodeLoop(T, s, i, h) ==
  IF i > Len(T.types) THEN success(s, h)
  ELSE LET e == encode(T.types[i], s, h)
       IN IF e.threw THEN e ELSE intersectionEncodeLoop(T, e.value, i + 1, e.heap)

\* types.map((type, i) => type.encode(a[i]))
tupleEncodeLoop(T, a, i, s, h) ==
  IF i >= Len(T.types) THEN success(s, h)
  ELSE IF Throws(a) THEN Thrown(h)
  ELSE LET e == encode(T.types[i + 1], GetIndex(h, a, i), h)
       IN IF e.threw THEN e
          ELSE tupleEncodeLoop(T, a, i + 1, s, SetIndex(e.heap, s, i, e.value))

\* s[String(domain.encode(k))] = codomain.encode(a[k]) for every k in a
dictionaryEncodeLoop(T, a, keys, i, s, h) ==
  IF i > Len(keys) THEN success(s, h)
  ELSE LET ek == encode(T.types[1], Str(keys[i]), h)
           ev == encode(T.types[2], GetProp(h, a, keys[i]), ek.heap)
       IN IF ek.threw THEN ek
          ELSE IF ev.threw THEN ev
          ELSE dictionaryEncodeLoop(T, a, keys, i + 1, s,
                                    SetProp(ev.heap, s, String(ek.value).s, ev.value))

encode(T, a, h) ==
  IF T.encode = "identity" THEN success(a, h)
  ELSE
    CASE T.tag = "NeverType" -> Thrown(h)
      [] T.tag = "RefinementType" -> encode(T.types[1], a, h)
      [] T.tag = "ArrayType" ->
           IF ~IsArr(h, a) THEN Thrown(h)
           ELSE arrayEncodeLoop(T, a, 0, NewRef(h), Alloc(h, ArrCell(<<>>)))
      [] T.tag = "InterfaceType" ->
           typeEncodeLoop(T, a, 1, NewRef(h), Alloc(h, Spread(h, a)))
      [] T.tag = "PartialType" ->
           partialEncodeLoop(T, a, 1, NewRef(h), Alloc(h, ObjCell(<<>>, <<>>)))
      [] T.tag = "StrictType" -> encode(type(T.keys, T.types), a, h)
      [] T.tag = "UnionType" -> unionEncodeLoop(T, a, 1, h)
      [] T.tag = "IntersectionType" -> intersectionEncodeLoop(T, a, 1, h)
      [] T.tag = "PipeType" ->
           LET e == encode(T.types[2], a, h)
           IN IF e.threw THEN e ELSE encode(T.types[1], e.value, e.heap)
      [] T.tag = "ReadonlyType" -> encode(T.types[1], a, h)
      [] T.tag = "DictionaryType" ->
           dictionaryEncodeLoop(T, a, EnumerableKeys(h, a), 1, NewRef(h), Alloc(h, ObjCell(<<>>, <<>>)))
      [] T.tag = "TaggedUnionType" ->
           IF Throws(a) THEN Thrown(h)
           ELSE LET i == tagValue2Index(T, GetProp(h, a, T.value.s))
                IN IF i = 0 THEN Thrown(h) ELSE encode(T.types[i], a, h)
      [] T.tag = "TupleType" -> tupleEncodeLoop(T, a, 0, NewRef(h), Alloc(h, ArrCell(<<>>)))
      [] T.tag = "RecursiveType" -> encode(definition(T), a, h)
      [] T.tag = "NumberFromString" -> success(String(a), h)
      [] T.tag = "DateFromNumber" ->
           IF IsDate(h, a) THEN success(Num(Cell(h, a).time), h) ELSE Thrown(h)

\* ------------------------------------------------------------------------
\* The calls of runDefinition a call of validate / is / encode makes: one on
\* entering a closure of Self and one for every nested self-call.  Self
\* occurs under type and union in the definitions modelled.
\* ------------------------------------------------------------------------
RECURSIVE validateCalls(_, _, _)
RECURSIVE isCalls(_, _, _)
RECURSIVE encodeCalls(_, _, _)
RECURSIVE fieldCalls(_, _, _, _, _)
RECURSIVE memberCalls(_, _, _, _, _)

\* the calls made for the fields of an object from field i on; is stops at
\* the first field it rejects (every)
fieldCalls(kind, T, m, h, i) ==
  IF i > Len(T.keys) THEN 0
  ELSE LET mk == GetProp(h, m, T.keys[i])
       IN CASE kind = "validate" ->
                 validateCalls(T.types[i], mk, h) + fieldCalls(kind, T, m, h, i + 1)
            [] kind = "is" ->
                 isCalls(T.types[i], mk, h)
                   + (IF is(T.types[i], mk, h) THEN fieldCalls(kind, T, m, h, i + 1) ELSE 0)
            [] kind = "encode" ->
                 encodeCalls(T.types[i], mk, h) + fieldCalls(kind, T, m, h, i + 1)

\* the calls made for the members of a union from member i on: validate and
\* is stop at the first member that accepts, encode tests the guards of the
\* members but the last and encodes with the first that accepts
memberCalls(kind, T, m, h, i) ==
  IF i > Len(T.types) THEN 0
  ELSE CASE kind = "validate" ->
              validateCalls(T.types[i], m, h)
                + (IF isLeft(validate(T.types[i], m, IndexStr(i - 1), T.types[i], h))
                   THEN memberCalls(kind, T, m, h, i + 1) ELSE 0)
         [] kind = "is" ->
              isCalls(T.types[i], m, h)
                + (IF is(T.types[i], m, h) THEN 0 ELSE memberCalls(kind, T, m, h, i + 1))
         [] kind = "encode" ->
              IF i >= Len(T.types) THEN encodeCalls(T.types[i], m, h)
              ELSE isCalls(T.types[i], m, h)
                     + (IF is(T.types[i], m, h) THEN encodeCalls(T.types[i], m, h)
                        ELSE memberCalls(kind, T, m, h, i + 1))

validateCalls(T, m, h) ==
  CASE T.tag = "RecursiveType" -> 1 + validateCalls(definition(T), m, h)
    [] T.tag = "InterfaceType" ->
         IF DictionaryIs(m) THEN fieldCalls("validate", T, m, h, 1) ELSE 0
    [] T.tag = "UnionType" -> memberCalls("validate", T, m, h, 1)
    [] OTHER -> 0

isCalls(T, m, h) ==
  CASE T.tag = "RecursiveType" -> 1 + isCalls(definition(T), m, h)
    [] T.tag = "InterfaceType" -> IF DictionaryIs(m) THEN fieldCalls("is", T, m, h, 1) ELSE 0
    [] T.tag = "UnionType" -> memberCalls("is", T, m, h, 1)
    [] OTHER -> 0

encodeCalls(T, a, h) ==
  IF T.encode = "identity" THEN 0
  ELSE CASE T.tag = "RecursiveType" -> 1 + encodeCalls(definition(T), a, h)
         [] T.tag = "InterfaceType" -> fieldCalls("encode", T, a, h, 1)
         [] T.tag = "UnionType" -> memberCalls("encode", T, a, h, 1)
         [] OTHER -> 0

\* ------------------------------------------------------------------------
\* The reporters (PathReporter, ThrowReporter).  A message is a sequence of
\* text pieces, as a display name is.
\* ------------------------------------------------------------------------
\* JSON.stringify(v), which stringify applies to every value that is not a
\* function; undefined comes out as the text undefined in the template
RECURSIVE JSONStringify(_, _)
JSONStringify(h, v) ==
  CASE v.k = "string" -> <<"\"", v.s, "\"">>
    [] v.k = "number" -> <<NumberToString(v).s>>
    [] v.k = "boolean" -> <<IF v.n = 1 THEN "true" ELSE "false">>
    [] v.k \in {"null", "undefined"} -> <<v.k>>
    [] IsArr(h, v) ->
         <<"[">>
           \o Join([i \in 1..Length(h, v) |->
                      IF Cell(h, v).elems[i] = Undef THEN <<"null">>
                      ELSE JSONStringify(h, Cell(h, v).elems[i])], ",")
           \o <<"]">>
    [] IsObj(h, v) ->
         LET keys == SelectSeq(Cell(h, v).keys, LAMBDA k : GetProp(h, v, k) # Undef)
         IN <<"{">>
              \o Join([i \in 1..Len(keys) |->
                         <<"\"", keys[i], "\"", ":">> \o JSONStringify(h, GetProp(h, v, keys[i]))],
                      ",")
              \o <<"}">>
    [] IsDate(h, v) -> <<"\"", "1970-01-01T00:00:00.00", IndexStr(Cell(h, v).time), "Z", "\"">>
    [] OTHER -> <<"null">>

\* the path with every key dropped
getContextPathTypes(context) ==
  Join([i \in 1..Len(context) |-> context[i].type.name], "/")

\* context.map(({ key, type }) => `${key}: ${type.name}`).join('/')
getContextPath(context) ==
  Join([i \in 1..Len(context) |-> <<context[i].key, ": ">> \o context[i].type.name], "/")

getMessage(h, v, context) ==
  <<"Invalid value ">> \o JSONStringify(h, v) \o <<" supplied to ">> \o getContextPath(context)

\* PathReporter's failure(es)
reportFailure(h, es) == [i \in 1..Len(es) |-> getMessage(h, es[i].value, es[i].context)]

\* the sequences of a sequence laid end to end
RECURSIVE Flatten(_)
Flatten(ss) == IF Len(ss) = 0 THEN <<>> ELSE ss[1] \o Flatten(Tail(ss))

RECURSIVE convertError(_)
convertError(x) ==
  IF Len(x.children) > 0 THEN
    Flatten([j \in 1..Len(x.children) |->
               LET errors == convertError(x.children[j])
               IN [i \in 1..Len(errors) |->
                     [value |-> errors[i].value,
                      context |-> <<[key |-> x.key, type |-> x.type]>> \o errors[i].context]]])
  ELSE <<[value |-> x.value, context |-> <<[key |-> x.key, type |-> x.type]>>]>>

\* what a reporter call comes to: the lines returned, or the message thrown
Returned(reporter, lines) ==
  [reporter |-> reporter, threw |-> FALSE, lines |-> lines, message |-> <<>>]
Raised(reporter, message) ==
  [reporter |-> reporter, threw |-> TRUE, lines |-> <<>>, message |-> message]

\* PathReporter.report: validation.fold(compose(failure, convertError), success),
\* fold being a method of Left; a success is the raw value, which has none
PathReporter(validation) ==
  IF isLeft(validation)
  THEN Returned("PathReporter", reportFailure(validation.heap, convertError(validation.error)))
  ELSE Raised("PathReporter", <<"TypeError">>)

\* the thrown text with the lines run together
joinBare(lines) == Join(lines, "")

\* lines.join('\n')
joinLines(lines) == Join(lines, "\n")

\* ThrowReporter.report
ThrowReporter(validation) ==
  IF isLeft(validation) THEN Raised("ThrowReporter", joinLines(PathReporter(validation).lines))
  ELSE Returned("ThrowReporter", <<>>)

\* ------------------------------------------------------------------------
\* Observational (deep) equality of a value in heap h1 and one in heap h2
\* ------------------------------------------------------------------------
RECURSIVE DeepEqual(_, _, _, _)
DeepEqual(h1, v1, h2, v2) ==
  IF ~IsRef(v1) \/ ~IsRef(v2) THEN v1 = v2
  ELSE
    LET c1 == Cell(h1, v1)
        c2 == Cell(h2, v2)
    IN /\ c1.kind = c2.kind
       /\ c1.time = c2.time
       /\ Len(c1.elems) = Len(c2.elems)
       /\ \A i \in 1..Len(c1.elems) : DeepEqual(h1, c1.elems[i], h2, c2.elems[i])
       /\ SeqRange(c1.keys) = SeqRange(c2.keys)
       /\ \A k \in SeqRange(c1.keys) : DeepEqual(h1, GetProp(h1, v1, k), h2, GetProp(h2, v2, k))

\* ------------------------------------------------------------------------
\* The descriptors under test and the caller's inputs
\* ------------------------------------------------------------------------
\* members of the tagged unions under test, tagged by field a
TA == type(<<"a", "b">>, <<literal(Str("a")), string>>)
TB == type(<<"a">>, <<literal(Str("b"))>>)
TN == type(<<"a">>, <<literal(Num(1))>>)
TD == type(<<"a", "b">>, <<literal(Str("a")), DateFromNumber>>)

TaggedUnions ==
  { taggedUnion("a", <<TA, TB>>),
    taggedUnion("a", <<TB, TA>>),
    taggedUnion("a", <<TA, TN>>),
    taggedUnion("a", <<TD, TB>>),
    taggedUnion("a", <<strict(<<"a">>, <<literal(Str("a"))>>), TB>>),
    taggedUnion("a", <<intersection(<<type(<<"b">>, <<string>>), TA>>), TB>>),
    taggedUnion("a", <<refinement(TB, "", "TB"), TA>>),
    taggedUnion("a", <<union(<<TA, TB>>)>>) }

\* a recursive descriptor: { a: number, b: undefined | List }
List == recursion("List")

Dictionaries ==
  { dictionary(string, number),
    dictionary(keyof(<<"a", "b">>), string),
    dictionary(NumberFromString, string),
    dictionary(string, DateFromNumber),
    dictionary(NumberFromString, DateFromNumber) }

Pipes ==
  { pipe(number, Integer),
    pipe(string, NumberFromString),
    pipe(NumberFromString, DateFromNumber),
    readonly(type(<<"a">>, <<string>>)),
    readonly(array(DateFromNumber)) }

Types ==
  { string, number, undefinedType, nullType, any, never, Integer,
    literal(Str("a")), keyof(<<"a", "b">>),
    NumberFromString, DateFromNumber, IntegerFromString,
    array(string), array(DateFromNumber),
    type(<<"a">>, <<string>>), type(<<"a", "b">>, <<string, number>>),
    type(<<"a">>, <<DateFromNumber>>), type(<<"a">>, <<array(DateFromNumber)>>),
    type(<<"a">>, <<strict(<<>>, <<>>)>>),
    partial(<<"a">>, <<string>>), partial(<<"a">>, <<DateFromNumber>>),
    partial(<<"a">>, <<never>>),
    strict(<<"a">>, <<string>>), strict(<<"a">>, <<DateFromNumber>>),
    tuple(<<string>>), tuple(<<string, number>>), tuple(<<DateFromNumber>>),
    tuple(<<any>>), tuple(<<never>>), tuple(<<DateFromNumber, undefinedType>>),
    union(<<string, number>>), union(<<string, NumberFromString>>),
    union(<<NumberFromString, string>>), union(<<number, DateFromNumber>>),
    union(<<strict(<<"a">>, <<string>>), number>>),
    intersection(<<string, number>>),
    intersection(<<type(<<"a">>, <<string>>), type(<<"b">>, <<number>>)>>),
    intersection(<<type(<<"a">>, <<DateFromNumber>>), partial(<<"b">>, <<string>>)>>) }

\* scalars passed to decode / encode directly
RootScalars ==
  {Null, Undef, Num(1), NumHalf(1), Str("a"), Str("1"), Str("1a"), Str("1.5"), Bool(TRUE)}
\* scalars the caller stores in containers
Elems == {Undef, Num(1), Str("a")}

\* the descriptors of the second suite: dispatching, recursive, keyed and
\* chained descriptors, with one descriptor of each structural kind
ExtTypes ==
  TaggedUnions \cup {List} \cup Dictionaries \cup Pipes \cup
  { string, NumberFromString, DateFromNumber,
    array(DateFromNumber),
    type(<<"a", "b">>, <<string, number>>),
    type(<<"a">>, <<array(DateFromNumber)>>),
    partial(<<"a">>, <<DateFromNumber>>),
    strict(<<"a">>, <<string>>),
    tuple(<<DateFromNumber, undefinedType>>),
    union(<<number, DateFromNumber>>),
    intersection(<<type(<<"a">>, <<DateFromNumber>>), partial(<<"b">>, <<string>>)>>) }
\* the scalars the second suite stores in containers: both tag values occur
ExtElems == {Num(1), Str("a"), Str("b")}
\* the keys the caller's objects may hold, in the order they are written
ObjectKeys == <<"a", "b", "x">>
DateTimes == {0, 1}

\* cache is the variable of that name in recursion's closure, invoked counts
\* the calls of definition, accesses the calls of Self's closures and reads
\* of Self.type made from outside
\* report is what the reporter called on result came to
VARIABLES heap, pc, codec, input, pre, result, back, cache, invoked, accesses, report
vars == <<heap, pc, codec, input, pre, result, back, cache, invoked, accesses, report>>

NoResult == success(Undef, <<>>)

RECURSIVE Slots(_)
Slots(h) ==
  IF Len(h) = 0 THEN 0
  ELSE LET c == h[Len(h)]
       IN Slots(SubSeq(h, 1, Len(h) - 1))
          + (IF c.kind = "date" THEN 1 ELSE Len(c.elems) + Len(c.keys))

\* what a new container may hold: a scalar or the container allocated last
Available(elems, h) == elems \cup (IF Len(h) = 0 THEN {} ELSE {Ref(Len(h))})
\* every container is reachable from the one allocated last
Linked(h, held) == Len(h) = 0 \/ Ref(Len(h)) \in held

Init ==
  /\ heap = <<>>
  /\ pc = "build"
  /\ codec = any
  /\ input = Undef
  /\ pre = <<>>
  /\ result = NoResult
  /\ back = NoResult
  /\ cache = NoCache
  /\ invoked = 0
  /\ accesses = 0
  /\ report = Returned("", <<>>)

\* what a call into descriptor T that runs runDefinition n times does to the
\* closure of recursion; no other descriptor touches it
Access(T, n) ==
  IF T.tag = "RecursiveType"
  THEN LET memo == runDefinitionTimes([cache |-> cache, invoked |-> invoked], T, n)
       IN /\ cache' = memo.cache
          /\ invoked' = memo.invoked
          /\ accesses' = accesses + 1
  ELSE UNCHANGED <<cache, invoked, accesses>>

\* the caller writes an array literal of the given scalars
NewArrayOf(scalars) ==
  /\ Len(heap) < MaxCells
  /\ \E n \in 0..(MaxSlots - Slots(heap)) :
       \E elems \in [1..n -> Available(scalars, heap)] :
         /\ Linked(heap, SeqRange(elems))
         /\ heap' = Alloc(heap, ArrCell(elems))
  /\ UNCHANGED <<pc, codec, input, pre, result, back, cache, invoked, accesses, report>>

\* an array literal of the first suite's scalars
NewArray ==
  /\ pc = "build"
  /\ NewArrayOf(Elems)
\* an array literal of the second suite's scalars
ExtNewArray ==
  /\ pc = "build"
  /\ NewArrayOf(ExtElems)

\* the caller writes an object literal of the given scalars
NewObjectOf(scalars) ==
  /\ Len(heap) < MaxCells
  /\ \E K \in SUBSET (1..Len(ObjectKeys)) :
       /\ Cardinality(K) <= MaxSlots - Slots(heap)
       /\ \E f \in [K -> Available(scalars, heap)] :
            LET keys == SelectSeq(ObjectKeys, LAMBDA k : IndexOf(ObjectKeys, k) \in K)
            IN /\ Linked(heap, {f[i] : i \in K})
               /\ heap' = Alloc(heap, ObjCell(keys, [i \in 1..Len(keys) |-> f[IndexOf(ObjectKeys, keys[i])]]))
  /\ UNCHANGED <<pc, codec, input, pre, result, back, cache, invoked, accesses, report>>

\* an object literal of the first suite's scalars
NewObject ==
  /\ pc = "build"
  /\ NewObjectOf(Elems)
\* an object literal of the second suite's scalars
ExtNewObject ==
  /\ pc = "build"
  /\ NewObjectOf(ExtElems)

\* the caller creates a Date
NewDate ==
  /\ pc = "build"
  /\ heap = <<>>
  /\ MaxSlots >= 1
  /\ \E t \in DateTimes : heap' = Alloc(heap, DateCell(t))
  /\ UNCHANGED <<pc, codec, input, pre, result, back, cache, invoked, accesses, report>>

\* the value handed to the codec: a scalar, or the container allocated last
Roots == IF Len(heap) = 0 THEN RootScalars ELSE {Ref(Len(heap))}

\* T.decode(v) for a descriptor T of the given suite
DecodeOf(types) ==
  /\ \E T \in types, v \in Roots :
       LET r == decode(T, v, heap)
       IN /\ codec' = T
          /\ input' = v
          /\ pre' = heap
          /\ result' = r
          /\ heap' = r.heap
          /\ Access(T, validateCalls(T, v, heap))
  /\ pc' = "decoded"
  /\ UNCHANGED <<back, report>>

\* decode on a descriptor of the first suite
Decode ==
  /\ pc = "build"
  /\ DecodeOf(Types)
\* decode on a descriptor of the second suite
ExtDecode ==
  /\ pc = "build"
  /\ DecodeOf(ExtTypes)

\* T.encode(v) for a value of the codec's type
EncodeOf(types) ==
  /\ \E T \in types, v \in Roots :
       /\ is(T, v, heap)
       /\ LET r == encode(T, v, heap)
          IN /\ codec' = T
             /\ input' = v
             /\ pre' = heap
             /\ result' = r
             /\ heap' = r.heap
             /\ Access(T, isCalls(T, v, heap) + encodeCalls(T, v, heap))
  /\ pc' = "encoded"
  /\ UNCHANGED <<back, report>>

\* encode on a descriptor of the first suite
Encode ==
  /\ pc = "build"
  /\ EncodeOf(Types)
\* encode on a descriptor of the second suite
ExtEncode ==
  /\ pc = "build"
  /\ EncodeOf(ExtTypes)

\* T.decode(x).fold(() => x, T.encode): the decoded value is encoded again
EncodeDecoded ==
  /\ pc = "decoded"
  /\ ~result.threw /\ ~isLeft(result)
  /\ back' = encode(codec, result.value, heap)
  /\ heap' = back'.heap
  /\ Access(codec, encodeCalls(codec, result.value, heap))
  /\ pc' = "decoded-encoded"
  /\ UNCHANGED <<codec, input, pre, result, report>>

\* T.decode(T.encode(v)): the encoded value is decoded again
DecodeEncoded ==
  /\ pc = "encoded"
  /\ ~result.threw
  /\ back' = decode(codec, result.value, heap)
  /\ heap' = back'.heap
  /\ Access(codec, validateCalls(codec, result.value, heap))
  /\ pc' = "encoded-decoded"
  /\ UNCHANGED <<codec, input, pre, result, report>>

\* one more use of a recursive descriptor on the same input: its guard, its
\* validate, its encoder (for a value of its type) or a read of Self.type
Again ==
  /\ pc # "build"
  /\ codec.tag = "RecursiveType"
  /\ accesses < MaxAccesses
  /\ \E kind \in {"is", "validate", "encode", "type"} :
       CASE kind = "is" -> Access(codec, isCalls(codec, input, pre))
         [] kind = "validate" -> Access(codec, validateCalls(codec, input, pre))
         [] kind = "encode" ->
              /\ is(codec, input, pre)
              /\ Access(codec, encodeCalls(codec, input, pre))
         [] kind = "type" -> Access(codec, 1)
  /\ UNCHANGED <<heap, pc, codec, input, pre, result, back, report>>

\* a reporter is called on what decode returned
Report ==
  /\ pc = "decoded"
  /\ ~result.threw
  /\ \E reporter \in {"PathReporter", "ThrowReporter"} :
       report' = IF reporter = "PathReporter" THEN PathReporter(result) ELSE ThrowReporter(result)
  /\ pc' = "reported"
  /\ UNCHANGED <<heap, codec, input, pre, result, back, cache, invoked, accesses>>

Next ==
  \/ NewArray
  \/ NewObject
  \/ NewDate
  \/ Decode
  \/ Encode
  \/ EncodeDecoded
  \/ DecodeEncoded

Spec == Init /\ [][Next]_vars

\* the second suite: one call on a descriptor of ExtTypes, then the repeated
\* uses of a recursive descriptor and the reporters
ExtNext ==
  \/ ExtNewArray
  \/ ExtNewObject
  \/ NewDate
  \/ ExtDecode
  \/ ExtEncode
  \/ Again
  \/ Report

ExtSpec == Init /\ [][ExtNext]_vars

\* the call under observation has returned
Decoded == pc \in {"decoded", "decoded-encoded"}
Encoded == pc \in {"encoded", "encoded-decoded"}

\* ------------------------------------------------------------------------
\* Properties
\* ------------------------------------------------------------------------
\* every encoder in the descriptor is the identity function
NonTransforming(T) == T.encode = "identity"

\* the containers the caller allocated hold what they held before the call
Untouched == \A a \in 1..Len(pre) : heap[a] = pre[a]

\* C1: for a non-transforming descriptor, validate succeeds exactly when is
\* accepts the input.
C1_ValidateIffIs ==
  (pc = "decoded" /\ NonTransforming(codec))
    => (~result.threw /\ (~isLeft(result) <=> is(codec, input, pre)))

\* C2: for a value accepted by is, encode followed by decode succeeds with a
\* value deeply equal to the original.
C2_RoundTrip ==
  /\ Encoded => ~result.threw
  /\ pc = "encoded-decoded"
       => (~back.threw /\ ~isLeft(back) /\ DeepEqual(heap, back.value, pre, input))

\* C3: when decode succeeds with a, encode(a) is equal to the decoded input.
C3_DecodeThenEncode ==
  pc = "decoded-encoded" => (~back.threw /\ DeepEqual(heap, back.value, pre, input))

\* C4: validate returns a success or a failure holding one error node and
\* never throws, whatever the input.
C4_ValidateTotal ==
  pc = "decoded" => (~result.threw /\ (isLeft(result) \/ result.error = NoError))

C4_Witness ==
  /\ pc = "decoded"
  /\ input = Null
  /\ codec.tag = "InterfaceType"
  /\ isLeft(result)
  /\ result.error.value = Null

\* C5: validate leaves the input container and every container nested in it
\* as they were.
C5_InputNotMutated == pc = "decoded" => Untouched

\* the outcome of validating declared child i of an object-like descriptor on
\* the matching field of v
FieldResult(T, v, h, i) ==
  validate(T.types[i], GetProp(h, v, T.keys[i]), T.keys[i], T.types[i], h)

\* the outcome of validating element i (zero-based) of v with child type E
ElementResult(E, v, h, i) == validate(E, GetIndex(h, v, i), IndexStr(i), E, h)

Same(r, x) == ~r.threw /\ ~isLeft(r) /\ r.value = x

\* every declared field / element validates to the very value it had
ChildrenIdentical(T, v, h) ==
  CASE T.tag = "InterfaceType" ->
         \A i \in 1..Len(T.keys) : Same(FieldResult(T, v, h, i), GetProp(h, v, T.keys[i]))
    [] T.tag = "ArrayType" ->
         \A i \in 0..(Length(h, v) - 1) : Same(ElementResult(T.types[1], v, h, i), GetIndex(h, v, i))
    [] T.tag = "TupleType" ->
         \A i \in 0..(Len(T.types) - 1) :
           Same(ElementResult(T.types[i + 1], v, h, i), GetIndex(h, v, i))

\* C6: object, array-of and tuple return the container they were given when
\* validation succeeds and every child validates to the identical value.
C6_IdentityPreserved ==
  (/\ pc = "decoded"
   /\ codec.tag \in {"InterfaceType", "ArrayType", "TupleType"}
   /\ IsRef(input)
   /\ ~isLeft(result)
   /\ ChildrenIdentical(codec, input, pre))
    => result.value = input

C6_Witness ==
  /\ pc = "decoded"
  /\ codec.tag \in {"InterfaceType", "TupleType"}
  /\ Len(codec.types) = 2
  /\ IsRef(input)
  /\ ~isLeft(result)
  /\ ChildrenIdentical(codec, input, pre)
  /\ result.value = input

\* the declared fields whose validate fails, in declaration order
FailingFields(T, v, h) ==
  SelectSeq([i \in 1..Len(T.keys) |-> i], LAMBDA i : isLeft(FieldResult(T, v, h, i)))

\* the own enumerable keys of v that T does not declare
Undeclared(T, v, h) == SeqRange(EnumerableKeys(h, v)) \ SeqRange(T.keys)

\* C7: an open object reports one child per failing declared field, in
\* declaration order and keyed by the field name; it succeeds iff no declared
\* field fails, and its output keeps every undeclared field of the input.
C7_OpenObjectAggregation ==
  (pc = "decoded" /\ codec.tag = "InterfaceType" /\ IsRef(input))
    => LET ff == FailingFields(codec, input, pre)
       IN /\ isLeft(result) <=> Len(ff) > 0
          /\ isLeft(result) =>
               /\ Len(result.error.children) = Len(ff)
               /\ \A j \in 1..Len(ff) :
                    /\ result.error.children[j].key = codec.keys[ff[j]]
                    /\ result.error.children[j].value = GetProp(pre, input, codec.keys[ff[j]])
          /\ ~isLeft(result) =>
               \A k \in Undeclared(codec, input, pre) :
                 /\ k \in SeqRange(EnumerableKeys(heap, result.value))
                 /\ GetProp(heap, result.value, k) = GetProp(pre, input, k)

\* C8: strict returns the open object's failure; otherwise it fails iff the
\* open object's result has an own property that is not declared, with one
\* never-typed child per such property, keyed by it and carrying its value,
\* and without such a property it returns the open object's result.
C8_ClosedObject ==
  (pc = "decoded" /\ codec.tag = "StrictType")
    => LET loose == type(codec.keys, codec.types)
           lv == validate(loose, input, "", loose, pre)
       IN IF isLeft(lv) THEN isLeft(result) /\ result.error = lv.error
          ELSE LET o == lv.value
                   extra == SelectSeq(OwnPropertyNames(lv.heap, o),
                                      LAMBDA k : k \notin SeqRange(codec.keys))
               IN /\ isLeft(result) <=> Len(extra) > 0
                  /\ isLeft(result) =>
                       /\ Len(result.error.children) = Len(extra)
                       /\ \A j \in 1..Len(extra) :
                            result.error.children[j] =
                              [value |-> GetProp(lv.heap, o, extra[j]), key |-> extra[j],
                               type |-> never, children |-> <<>>]
                  /\ ~isLeft(result) => (result.value = o /\ heap = lv.heap)

C8_Witness ==
  /\ pc = "decoded"
  /\ codec.tag = "StrictType"
  /\ IsObj(pre, input)
  /\ isLeft(result)
  /\ Len(result.error.children) = 2
  /\ \A j \in 1..2 : result.error.children[j].type = never

\* partial(props) accepts v: every declared field is missing, undefined or
\* accepted by its declared descriptor
PartialAccepts(T, v, h) ==
  \A i \in 1..Len(T.keys) :
    \/ GetProp(h, v, T.keys[i]) = Undef
    \/ ~isLeft(FieldResult(T, v, h, i))

\* the declared keys whose typed value is absent
AbsentKeys(T, v, h) == {T.keys[i] : i \in {j \in 1..Len(T.keys) : GetProp(h, v, T.keys[j]) = Undef}}

\* C9 as stated: partial accepts exactly the containers whose declared fields
\* are missing, undefined or valid, and the encoder's output never holds a key
\* whose typed value is absent.
C9_PartialAsStated ==
  /\ (pc = "decoded" /\ codec.tag = "PartialType" /\ IsRef(input))
       => (~isLeft(result) <=> PartialAccepts(codec, input, pre))
  /\ (pc = "encoded" /\ codec.tag = "PartialType")
       => /\ ~result.threw
          /\ AbsentKeys(codec, input, pre) \cap SeqRange(OwnPropertyNames(heap, result.value)) = {}

\* C9 amended: the encoder leaves the absent keys out when some declared
\* field's encoder is not identity; when all are identity it is the identity
\* function and returns its argument as it is.
C9_Partial ==
  /\ (pc = "decoded" /\ codec.tag = "PartialType" /\ IsRef(input))
       => (~isLeft(result) <=> PartialAccepts(codec, input, pre))
  /\ (pc = "encoded" /\ codec.tag = "PartialType")
       => /\ ~result.threw
          /\ useIdentity(codec.types) => (result.value = input /\ heap = pre)
          /\ ~useIdentity(codec.types) =>
               /\ IsObj(heap, result.value)
               /\ result.value.n > Len(pre)
               /\ Untouched
               /\ AbsentKeys(codec, input, pre)
                    \cap SeqRange(OwnPropertyNames(heap, result.value)) = {}

\* an absent declared key is left out of a fresh output, next to one that is encoded
C9_Witness ==
  /\ pc = "encoded"
  /\ codec = partial(<<"a">>, <<DateFromNumber>>)
  /\ IsObj(pre, input)
  /\ "a" \in SeqRange(Cell(pre, input).keys)
  /\ GetProp(pre, input, "a") = Undef
  /\ ~result.threw
  /\ result.value # input
  /\ "a" \notin SeqRange(OwnPropertyNames(heap, result.value))

\* C10 as stated: an array longer than the tuple's arity fails with a
\* never-typed child for every index from the arity on; an array of exactly
\* the arity whose elements all validate succeeds.
C10_TupleExcessAsStated ==
  (pc = "decoded" /\ codec.tag = "TupleType" /\ IsArr(pre, input))
    => LET n == Len(codec.types)
           m == Length(pre, input)
       IN /\ m > n =>
               /\ isLeft(result)
               /\ \A i \in n..(m - 1) :
                    \E j \in 1..Len(result.error.children) :
                      /\ result.error.children[j].type = never
                      /\ result.error.children[j].key = IndexStr(i)
          /\ (m = n /\ \A i \in 0..(n - 1) : ~isLeft(ElementResult(codec.types[i + 1], input, pre, i)))
               => ~isLeft(result)

\* the declared elements of v that fail, by zero-based index
FailingElements(T, v, h) ==
  {i \in 0..(Len(T.types) - 1) : isLeft(ElementResult(T.types[i + 1], v, h, i))}

\* C10 amended: the failure's children are the failing declared elements'
\* nodes followed by exactly one never-typed node, for the first excess index
\* (the arity) and carrying the element at that index; later excess indices
\* get no node.
C10_TupleExcess ==
  (pc = "decoded" /\ codec.tag = "TupleType" /\ IsArr(pre, input))
    => LET n == Len(codec.types)
           m == Length(pre, input)
           children == result.error.children
       IN /\ m > n =>
               /\ isLeft(result)
               /\ Len(children) = Cardinality(FailingElements(codec, input, pre)) + 1
               /\ children[Len(children)] =
                    [value |-> GetIndex(pre, input, n), key |-> IndexStr(n), type |-> never,
                     children |-> <<>>]
          /\ (m = n /\ FailingElements(codec, input, pre) = {}) => ~isLeft(result)

\* two excess elements after a valid one, and one never-typed child
C10_Witness ==
  /\ pc = "decoded"
  /\ codec = tuple(<<string>>)
  /\ IsArr(pre, input)
  /\ Length(pre, input) = 3
  /\ isLeft(result)
  /\ Len(result.error.children) = 1
  /\ result.error.children[1].key = "1"

\* the heap union's loop has reached when it tries member i: what the members
\* before i left behind
RECURSIVE BeforeMember(_, _, _, _)
BeforeMember(T, m, h, i) ==
  IF i = 1 THEN h
  ELSE validate(T.types[i - 1], m, IndexStr(i - 2), T.types[i - 1],
                BeforeMember(T, m, h, i - 1)).heap

\* member i of a union tried on m under its branch index
MemberResult(T, m, h, i) ==
  validate(T.types[i], m, IndexStr(i - 1), T.types[i], BeforeMember(T, m, h, i))

\* the members of a union that accept m
Succeeding(T, m, h) == {i \in 1..Len(T.types) : ~isLeft(MemberResult(T, m, h, i))}

Lowest(S) == CHOOSE i \in S : \A j \in S : i <= j

\* C11: a union returns the result of the lowest-index member that succeeds,
\* with nothing of a later member in it; when all N members fail it returns
\* one error node at its own path key whose children are the N members' whole
\* error nodes in member order, child i keyed by branch index i.
C11_UnionOrder ==
  (pc = "decoded" /\ codec.tag = "UnionType")
    => LET ok == Succeeding(codec, input, pre)
           children == result.error.children
       IN IF ok # {} THEN result = MemberResult(codec, input, pre, Lowest(ok))
          ELSE /\ isLeft(result)
               /\ result.error.key = ""
               /\ result.error.type = codec
               /\ Len(children) = Len(codec.types)
               /\ \A i \in 1..Len(children) :
                    /\ children[i] = MemberResult(codec, input, pre, i).error
                    /\ children[i].key = IndexStr(i - 1)

\* C11 without the clause on the children's keys
C11_UnionOrderShape ==
  (pc = "decoded" /\ codec.tag = "UnionType")
    => LET ok == Succeeding(codec, input, pre)
           children == result.error.children
       IN IF ok # {} THEN result = MemberResult(codec, input, pre, Lowest(ok))
          ELSE /\ isLeft(result)
               /\ result.error.key = ""
               /\ result.error.type = codec
               /\ Len(children) = Len(codec.types)
               /\ \A i \in 1..Len(children) :
                    children[i] = MemberResult(codec, input, pre, i).error

\* what intersection's loop holds when it reaches member i: a, the output of
\* the last member before i that succeeded (m if none), and the heap
RECURSIVE Threaded(_, _, _, _)
Threaded(T, m, h, i) ==
  IF i = 1 THEN [a |-> m, heap |-> h]
  ELSE LET before == Threaded(T, m, h, i - 1)
           r == validate(T.types[i - 1], before.a, IndexStr(i - 2), T.types[i - 1], before.heap)
       IN [a |-> IF isLeft(r) THEN before.a ELSE r.value, heap |-> r.heap]

\* member i of an intersection called on the threaded value under its branch index
StepResult(T, m, h, i) ==
  validate(T.types[i], Threaded(T, m, h, i).a, IndexStr(i - 1), T.types[i],
           Threaded(T, m, h, i).heap)

\* the children of the failing members' nodes up to member i, in member order
RECURSIVE Spliced(_, _, _, _)
Spliced(T, m, h, i) ==
  IF i = 0 THEN <<>>
  ELSE Spliced(T, m, h, i - 1)
         \o (IF isLeft(StepResult(T, m, h, i)) THEN StepResult(T, m, h, i).error.children
             ELSE <<>>)

RECURSIVE Literals(_, _)
Literals(tag, T) ==
  CASE T.tag \in {"InterfaceType", "StrictType"} ->
         IF tag \in SeqRange(T.keys) THEN {T.types[IndexOf(T.keys, tag)].value} ELSE {}
    [] T.tag = "RefinementType" -> Literals(tag, T.types[1])
    [] T.tag \in {"IntersectionType", "UnionType", "TaggedUnionType"} ->
         UNION {Literals(tag, T.types[i]) : i \in 1..Len(T.types)}
    [] OTHER -> {}

\* the members whose literal the tag field of container v holds
Matching(T, v, h) ==
  {i \in 1..Len(T.types) : GetProp(h, v, T.value.s) \in Literals(T.value.s, T.types[i])}

\* C13: on a container whose tag field is none of the members' literals a
\* tagged union fails with exactly one child, keyed by the tag, and nothing of
\* any member's validate; when the tag field is a member's literal the result
\* is that member's result as it is.
C13_TaggedDispatch ==
  (pc = "decoded" /\ codec.tag = "TaggedUnionType" /\ DictionaryIs(input))
    => LET matching == Matching(codec, input, pre)
       IN IF matching = {}
          THEN /\ isLeft(result)
               /\ Len(result.error.children) = 1
               /\ result.error.children[1].key = codec.value.s
               /\ result.error.children[1].value = GetProp(pre, input, codec.value.s)
               /\ result.error.children[1].children = <<>>
               /\ result.heap = pre
          ELSE \E i \in matching :
                 /\ matching = {i}
                 /\ result = validate(codec.types[i], input, "", codec.types[i], pre)

\* the tagged unions whose members declare string literals in objects of
\* their own, none under a union
StringTagged(T) ==
  /\ T.tag = "TaggedUnionType"
  /\ \A i \in 1..Len(T.types) :
       /\ Literals(T.value.s, T.types[i]) = {Str(T.keys[i])}
       /\ T.types[i].tag # "UnionType"

\* C13 for string literals declared outside unions
C13_StringTagged == StringTagged(codec) => C13_TaggedDispatch

\* C14: a tagged union and the union of the same members agree on is, agree
\* on whether validate succeeds, and return the same value on success.
C14_TaggedAsUnion ==
  (pc = "decoded" /\ codec.tag = "TaggedUnionType")
    => LET U == union(codec.types)
           u == decode(U, input, pre)
       IN /\ is(codec, input, pre) <=> is(U, input, pre)
          /\ isLeft(result) <=> isLeft(u)
          /\ ~isLeft(result) => DeepEqual(result.heap, result.value, u.heap, u.value)

\* C14 for string literals declared outside unions, no member being an
\* intersection
C14_StringTagged ==
  (StringTagged(codec) /\ \A i \in 1..Len(codec.types) : codec.types[i].tag # "IntersectionType")
    => C14_TaggedAsUnion

\* C15: a refinement returns its base's failure unchanged; when the base
\* succeeds with a it returns that success if the predicate holds of a and
\* otherwise a leaf failure recording a, the validated value, not the raw
\* input; its encoder is the base's encoder.
C15_Refinement ==
  codec.tag = "RefinementType"
    => LET base == codec.types[1]
           validation == validate(base, input, "", codec, pre)
       IN /\ codec.encode = base.encode
          /\ pc = "encoded" => result = encode(base, input, pre)
          /\ pc = "decoded" =>
               IF isLeft(validation) \/ predicate(codec.predicate, validation.value)
               THEN result = validation
               ELSE /\ isLeft(result)
                    /\ result.error = failureError(validation.value, "", codec, <<>>)

\* the base turns "1.5" into 1.5, the predicate rejects it, and the leaf
\* records 1.5
C15_Witness ==
  /\ pc = "decoded"
  /\ codec = IntegerFromString
  /\ input = Str("1.5")
  /\ isLeft(result)
  /\ result.error.value = NumHalf(1)

\* C16: constructing a recursive descriptor does not invoke definition; over
\* any sequence of uses, nested self-calls included, definition is invoked
\* exactly once, by the first use, and every later use has the descriptor
\* cached then.
C16_Memoized ==
  /\ [](accesses = 0 => (invoked = 0 /\ cache = NoCache))
  /\ [](accesses > 0 => (invoked = 1 /\ cache = definition(codec)))
  /\ [][cache # NoCache => (cache' = cache /\ invoked' = invoked)]_vars

\* a chain of two objects was validated, the second by a nested self-call,
\* and the descriptor was used again afterwards
C16_Witness ==
  /\ pc = "decoded"
  /\ codec = List
  /\ ~isLeft(result)
  /\ validateCalls(codec, input, pre) = 2
  /\ accesses = MaxAccesses
  /\ invoked = 1

\* the leaves of an error tree from left to right, each as the nodes from the
\* root down to it
RECURSIVE LeafPaths(_)
LeafPaths(e) ==
  IF e.children = <<>> THEN << <<e>> >>
  ELSE Flatten([j \in 1..Len(e.children) |->
                  LET below == LeafPaths(e.children[j])
                  IN [i \in 1..Len(below) |-> <<e>> \o below[i]]])

\* the line owed to one leaf
LeafLine(h, path) ==
  <<"Invalid value ">> \o JSONStringify(h, path[Len(path)].value) \o <<" supplied to ">>
    \o Join([i \in 1..Len(path) |-> <<path[i].key, ": ">> \o path[i].type.name], "/")

\* C17: for a failure whose error tree has k leaves the path reporter returns
\* exactly k lines, in left-to-right leaf order, each naming the leaf's value
\* and the '/'-joined "key: name" of every node from the root to the leaf.
C17_PathReporter ==
  (pc = "reported" /\ report.reporter = "PathReporter" /\ isLeft(result))
    => LET leaves == LeafPaths(result.error)
       IN /\ ~report.threw
          /\ Len(report.lines) = Len(leaves)
          /\ \A i \in 1..Len(leaves) : report.lines[i] = LeafLine(heap, leaves[i])

\* two leaves, each two levels below the root
C17_Witness ==
  /\ pc = "reported"
  /\ report.reporter = "PathReporter"
  /\ isLeft(result)
  /\ Len(report.lines) = 2
  /\ Len(LeafPaths(result.error)[1]) = 3
  /\ Len(LeafPaths(result.error)[2]) = 3

\* C18: the throwing reporter raises an error whose message is the path
\* reporter's lines joined by newline when given a failure, and returns
\* normally when given a success.
C18_ThrowReporter ==
  (pc = "reported" /\ report.reporter = "ThrowReporter")
    => IF isLeft(result)
       THEN LET leaves == LeafPaths(result.error)
            IN /\ report.threw
               /\ report.message =
                    Join([i \in 1..Len(leaves) |-> LeafLine(heap, leaves[i])], "\n")
       ELSE ~report.threw

\* a failure with two leaves: the message is two lines with a newline between
C18_Witness ==
  /\ pc = "reported"
  /\ report.reporter = "ThrowReporter"
  /\ isLeft(result)
  /\ Len(LeafPaths(result.error)) = 2
  /\ report.threw
  /\ \E i \in 1..Len(report.message) : report.message[i] = "\n"

\* the heap dictionary's loop has reached at entry i, and the outcomes of the
\* domain on entry i's key and of the codomain on its value, both called with
\* that key as path key
RECURSIVE EntryHeap(_, _, _, _)
KeyResult(T, v, h, i) ==
  LET k == EnumerableKeys(h, v)[i]
  IN validate(T.types[1], Str(k), k, T.types[1], EntryHeap(T, v, h, i))
ValueResult(T, v, h, i) ==
  LET k == EnumerableKeys(h, v)[i]
  IN validate(T.types[2], GetProp(h, v, k), k, T.types[2], KeyResult(T, v, h, i).heap)
EntryHeap(T, v, h, i) == IF i = 1 THEN h ELSE ValueResult(T, v, h, i - 1).heap

\* the key failure, then the value failure, of every entry in turn
EntryErrors(T, v, h) ==
  Flatten([i \in 1..Len(EnumerableKeys(h, v)) |->
             (IF isLeft(KeyResult(T, v, h, i)) THEN <<KeyResult(T, v, h, i).error>> ELSE <<>>)
               \o (IF isLeft(ValueResult(T, v, h, i)) THEN <<ValueResult(T, v, h, i).error>>
                   ELSE <<>>)])

\* no key and no value of v comes out of its validation as another value
NothingTransformed(T, v, h) ==
  \A i \in 1..Len(EnumerableKeys(h, v)) :
    /\ KeyResult(T, v, h, i).value = Str(EnumerableKeys(h, v)[i])
    /\ ValueResult(T, v, h, i).value = GetProp(h, v, EnumerableKeys(h, v)[i])

\* C19: a dictionary validates every entry's key with the domain and value
\* with the codomain under the entry's key, and fails with every key failure
\* and value failure of every entry; on success it returns the map it was
\* given when no key and no value was transformed, and otherwise a rebuilt
\* map holding each validated value under its transformed key.
C19_Dictionary ==
  (pc = "decoded" /\ codec.tag = "DictionaryType" /\ DictionaryIs(input))
    => LET n == Len(EnumerableKeys(pre, input))
           errors == EntryErrors(codec, input, pre)
       IN /\ isLeft(result) <=> errors # <<>>
          /\ isLeft(result) => (result.error.key = "" /\ result.error.children = errors)
          /\ ~isLeft(result) =>
               IF NothingTransformed(codec, input, pre) THEN result.value = input
               ELSE /\ IsObj(result.heap, result.value)
                    /\ result.value.n > Len(pre)
                    /\ Len(Cell(result.heap, result.value).keys) = n
                    /\ \A i \in 1..n :
                         GetProp(result.heap, result.value,
                                 PropertyKey(KeyResult(codec, input, pre, i).value))
                           = ValueResult(codec, input, pre, i).value

\* keys and values both transformed: an array of two numbers comes back as an
\* object holding a Date under each index
C19_Witness ==
  /\ pc = "decoded"
  /\ codec = dictionary(NumberFromString, DateFromNumber)
  /\ IsArr(pre, input)
  /\ Length(pre, input) = 2
  /\ ~isLeft(result)
  /\ IsObj(result.heap, result.value)
  /\ IsDate(result.heap, GetProp(result.heap, result.value, "1"))

\* the composed descriptors: pipe, object, partial, strict, array-of,
\* dictionary, tuple, union, intersection, tagged union, readonly
Composed(T) ==
  T.tag \in {"PipeType", "InterfaceType", "PartialType", "StrictType", "ArrayType",
             "DictionaryType", "TupleType", "UnionType", "IntersectionType",
             "TaggedUnionType", "ReadonlyType"}

ChildrenIdentity(T) == \A i \in 1..Len(T.types) : T.types[i].encode = "identity"

\* r is the outcome of child encoder E on x, up to where the containers lie
EncodedBy(E, x, h, r, v) ==
  LET e == encode(E, x, h) IN ~e.threw /\ DeepEqual(r.heap, v, e.heap, e.value)

\* the members' encoders applied one after the other, from member i on
RECURSIVE EncodedInTurn(_, _, _, _)
EncodedInTurn(T, a, h, i) ==
  IF i > Len(T.types) THEN success(a, h)
  ELSE LET e == encode(T.types[i], a, h) IN EncodedInTurn(T, e.value, e.heap, i + 1)

\* r is what the children's encoders make of a
AppliesChildren(T, a, h, r) ==
  CASE T.tag = "PipeType" ->
         LET second == encode(T.types[2], a, h)
         IN r = encode(T.types[1], second.value, second.heap)
    [] T.tag = "ReadonlyType" -> r = encode(T.types[1], a, h)
    [] T.tag \in {"InterfaceType", "StrictType"} ->
         \A i \in 1..Len(T.keys) :
           EncodedBy(T.types[i], GetProp(h, a, T.keys[i]), h, r, GetProp(r.heap, r.value, T.keys[i]))
    [] T.tag = "PartialType" ->
         \A i \in 1..Len(T.keys) :
           GetProp(h, a, T.keys[i]) # Undef =>
             EncodedBy(T.types[i], GetProp(h, a, T.keys[i]), h, r,
                       GetProp(r.heap, r.value, T.keys[i]))
    [] T.tag = "ArrayType" ->
         /\ Length(r.heap, r.value) = Length(h, a)
         /\ \A i \in 0..(Length(h, a) - 1) :
              EncodedBy(T.types[1], GetIndex(h, a, i), h, r, GetIndex(r.heap, r.value, i))
    [] T.tag = "TupleType" ->
         \A i \in 0..(Len(T.types) - 1) :
           EncodedBy(T.types[i + 1], GetIndex(h, a, i), h, r, GetIndex(r.heap, r.value, i))
    [] T.tag = "DictionaryType" ->
         \A k \in SeqRange(EnumerableKeys(h, a)) :
           EncodedBy(T.types[2], GetProp(h, a, k), h, r,
                     GetProp(r.heap, r.value, String(encode(T.types[1], Str(k), h).value).s))
    [] T.tag \in {"UnionType", "TaggedUnionType"} ->
         \E i \in 1..Len(T.types) : is(T.types[i], a, h) /\ EncodedBy(T.types[i], a, h, r, r.value)
    [] T.tag = "IntersectionType" ->
         DeepEqual(r.heap, r.value, EncodedInTurn(T, a, h, 1).heap, EncodedInTurn(T, a, h, 1).value)

\* C20: the encoder of a composed descriptor is the identity function itself
\* whenever all its children's encoders are, so encode returns its argument by
\* reference; otherwise encode applies the children's encoders, pipe composing
\* them right to left.
C20_EncoderIdentity ==
  Composed(codec)
    => IF ChildrenIdentity(codec)
       THEN /\ codec.encode = "identity"
            /\ pc = "encoded" => (~result.threw /\ result.value = input /\ result.heap = pre)
       ELSE /\ codec.encode # "identity"
            /\ pc = "encoded" => (~result.threw /\ AppliesChildren(codec, input, pre, result))

\* an object holding a string and a number was encoded, by the identity
C20_Witness ==
  /\ pc = "encoded"
  /\ codec = type(<<"a", "b">>, <<string, number>>)
  /\ IsObj(pre, input)
  /\ result.value = input

\* a pipe of two encoders that are not the identity was applied to a Date
C20_WitnessPipe ==
  /\ pc = "encoded"
  /\ codec = pipe(NumberFromString, DateFromNumber)
  /\ IsDate(pre, input)
  /\ result.value = Str("1")

\* the members of intersection T whose validate, called by the loop on input m,
\* returns a failure
FailingMembers(T, m, h) == {i \in 1..Len(T.types) : isLeft(StepResult(T, m, h, i))}

\* C21: if any member's validate returns a failure, a failure without children
\* included, the intersection's validate returns a failure; it succeeds only
\* if every member's validate succeeded.
C21_IntersectionFails ==
  (pc = "decoded" /\ codec.tag = "IntersectionType")
    => /\ ~result.threw
       /\ FailingMembers(codec, input, pre) # {} => isLeft(result)

\* the intersection fails exactly when a failing member's node has children
C21_FailsOnChildren ==
  (pc = "decoded" /\ codec.tag = "IntersectionType")
    => /\ ~result.threw
       /\ isLeft(result) <=>
            \E i \in FailingMembers(codec, input, pre) :
              StepResult(codec, input, pre, i).error.children # <<>>

\* the path keys a caller passes to validate: the root's, a field name, an index
PathKeys == {"", "a", "0"}

\* T.validate(v, k, T) for the descriptor and the input of the call observed
KeyedResult(k) == validate(codec, input, k, codec, pre)

\* C22: when T.validate(v, k, T) fails, the returned error node's key is
\* String(k), for every descriptor T and every path key k.
C22_RootKey ==
  pc = "decoded"
    => \A k \in PathKeys : isLeft(KeyedResult(k)) => KeyedResult(k).error.key = k

\* the descriptors whose failure node may come from strict's scan of the extra
\* keys or from taggedUnion's check of the tag
RECURSIVE KeyedByConstant(_)
KeyedByConstant(T) ==
  \/ T.tag \in {"StrictType", "TaggedUnionType"}
  \/ /\ T.tag \in {"RefinementType", "PipeType", "ReadonlyType"}
     /\ \E i \in 1..Len(T.types) : KeyedByConstant(T.types[i])

\* every other descriptor's failure node has the key it was called with
C22_OtherRootKeys ==
  (pc = "decoded" /\ ~KeyedByConstant(codec))
    => \A k \in PathKeys : isLeft(KeyedResult(k)) => KeyedResult(k).error.key = k

\* success() of the path reporter
reportSuccess == << <<"No errors!">> >>

\* C23: for every successful decode result, the raw decoded value of any
\* kind, PathReporter.report returns the one-element list ['No errors!'] and
\* does not throw.
C23_PathReporterSuccess ==
  (pc = "reported" /\ report.reporter = "PathReporter" /\ ~isLeft(result))
    => (~report.threw /\ report.lines = reportSuccess)

\* on a success the path reporter raises a TypeError and returns no line
C23_SuccessRaises ==
  (pc = "reported" /\ report.reporter = "PathReporter" /\ ~isLeft(result))
    => (report.threw /\ report.message = <<"TypeError">> /\ report.lines = <<>>)

====
